---- MODULE Spec2Model ----
(***************************************************************************)
(* OccupationDataCache of src/src/function_app.py: the lazily loaded,      *)
(* lock-protected cache of occupation collections, the threads that call   *)
(* it (get_occupation_data, get_all_occupations, clear_cache), and the     *)
(* seven handlers that filter its records (get_all_ranks ...               *)
(* get_all_duty_areas).                                                    *)
(***************************************************************************)
EXTENDS Integers, Sequences, FiniteSets, TLC

(* ------------------------------ bounds --------------------------------- *)
\* threads calling the cache concurrently
NThreads == 2
\* calls (get, names, clear) made in one behaviour, over all threads
MaxCalls == 3
\* times the container's content is replaced by an external writer
MaxStoreChanges == 1
\* largest container of the bounded-load specification
MaxBig == 22
\* size of the small container of the bounded-load specification
ExampleSize == 5

(* --------------------------- program constants ------------------------- *)
\* "if file_count >= 20"
MAX_FILES == 20
\* len(".json"), the 5 of blob.name[:-5]
SUFFIX_LEN == 5

Threads == 1..NThreads
NoThread == 0

(* ------------------------------ names ---------------------------------- *)
\* A name is a sequence of characters.
JSON_SUFFIX == <<".", "j", "s", "o", "n">>
TXT_SUFFIX == <<".", "t", "x", "t">>

\* mutant of EndsWithJson: every name passes
EndsWithJson_Any(name) == TRUE

\* blob.name.endswith(".json")
EndsWithJson(name) ==
    /\ Len(name) >= SUFFIX_LEN
    /\ SubSeq(name, Len(name) - SUFFIX_LEN + 1, Len(name)) = JSON_SUFFIX

\* blob.name[:-5]
StripSuffix(name) ==
    IF Len(name) >= SUFFIX_LEN THEN SubSeq(name, 1, Len(name) - SUFFIX_LEN) ELSE <<>>

(* ----------------------------- contents -------------------------------- *)
\* What download_blob().readall().decode() gives for a blob: a text, or the
\* fetch fails ("unreadable").  A text either parses or is malformed.
Texts == {"docA", "docB", "docE", "docM", "malformed"}
Contents == Texts \cup {"unreadable"}

\* json.loads(data): the parsed record list of a well-formed text
\* The two documents the facet handlers are run on.  A record has any of
\* the fields the handlers read; its values are strings and booleans.
DocE ==
    << [Rank |-> "E1", JobCode |-> "A1", Category |-> "Task", TaskCode |-> "T1",
        TaskDescription |-> "d", DutyAreaGroupCode |-> "D1",
        DutyAreaGroupName |-> "Area1", IsRequired |-> TRUE],
       [Rank |-> "E2", JobCode |-> "A1", Category |-> "Skill", TaskCode |-> "S1",
        TaskDescription |-> "sd"] >>
DocM ==
    << [Rank |-> "E2", JobCode |-> "B2", Category |-> "Task", TaskCode |-> "T2",
        TaskDescription |-> "d2", DutyAreaGroupCode |-> "D2",
        DutyAreaGroupName |-> "Area2", Occupation |-> "Cook",
        OccupationRequirement |-> "Core"],
       [JobCode |-> "A1", Category |-> "Knowledge", TaskCode |-> "K1",
        TaskDescription |-> "kd", DutyAreaGroupCode |-> "D1",
        DutyAreaGroupName |-> "AreaOne", IsRequired |-> FALSE],
       [Rank |-> "E1", JobCode |-> "A1", Category |-> "Task", TaskCode |-> "T1",
        TaskDescription |-> "d", DutyAreaGroupCode |-> "D1",
        DutyAreaGroupName |-> "Area1", IsRequired |-> TRUE, Occupation |-> "Clerk"],
       [Rank |-> "E1", JobCode |-> "", Category |-> "Task", TaskCode |-> "T4",
        DutyAreaGroupCode |-> "D1"],
       [Rank |-> "E1", JobCode |-> "B2", Category |-> "Task", TaskCode |-> "T5",
        DutyAreaGroupCode |-> "D1", Occupation |-> "Cook"],
       [Rank |-> "E2", Category |-> "Skill", TaskCode |-> "S6",
        DutyAreaGroupCode |-> "", DutyAreaGroupName |-> "NoArea"] >>

JsonLoads(text) ==
    CASE text = "docA" -> <<[Rank |-> "E1", JobCode |-> "A1"]>>
      [] text = "docB" -> <<[Rank |-> "E2", JobCode |-> "A1"], [Rank |-> "E1", JobCode |-> "B2"]>>
      [] text = "docE" -> DocE
      [] text = "docM" -> DocM
      [] OTHER -> <<>>

\* download + decode + json.loads succeed
Loadable(blob) == blob.content \notin {"unreadable", "malformed"}

(* ------------------------- the ordered dict ---------------------------- *)
\* self._occupation_data: a Python dict, kept in insertion order, as a
\* sequence of [key, val] pairs with distinct keys.
DictKeys(d) == [i \in 1..Len(d) |-> d[i].key]
DictValues(d) == [i \in 1..Len(d) |-> d[i].val]
DictHas(d, k) == \E i \in 1..Len(d) : d[i].key = k
DictGet(d, k) == d[CHOOSE i \in 1..Len(d) : d[i].key = k].val
\* d[k] = v
DictSet(d, k, v) ==
    IF DictHas(d, k)
    THEN [i \in 1..Len(d) |-> IF d[i].key = k THEN [key |-> k, val |-> v] ELSE d[i]]
    ELSE Append(d, [key |-> k, val |-> v])

(* --------------------------- environment ------------------------------- *)
\* os.environ as _get_blob_client reads it: AzureWebJobsStorage (conn),
\* AzureWebJobsStorage__blobServiceUri (uri), AzureWebJobsStorage__clientId.
\* "" is an unset variable; "bad" is a value the client constructor rejects.
Envs ==
    { [conn |-> "good", uri |-> "", clientId |-> ""],
      [conn |-> "bad", uri |-> "", clientId |-> ""],
      [conn |-> "", uri |-> "", clientId |-> ""] }
\* identity-based configuration
IdentityEnv == [conn |-> "__placeholder", uri |-> "good", clientId |-> "id"]

UsesConnectionString(e) == e.conn # "" /\ e.conn # "__placeholder"

\* _get_blob_client: "client" (a client is held or built), "none" (no
\* configuration: the method returns None) or "raise" (the constructor of
\* the client raises on a malformed value).
GetBlobClient(held, e) ==
    IF held # "none" THEN "client"
    ELSE IF UsesConnectionString(e)
         THEN (IF e.conn = "bad" THEN "raise" ELSE "client")
         ELSE IF e.uri # ""
              THEN (IF e.uri = "bad" THEN "raise" ELSE "client")
              ELSE "none"

(* ----------------------------- containers ------------------------------ *)
Blob(name, content) == [name |-> name, content |-> content]

SmallPool ==
    { Blob(<<"a">> \o JSON_SUFFIX, "docA"), Blob(<<"b">> \o JSON_SUFFIX, "malformed") }

\* the containers of the concurrent specification hold at most one object
SmallListings == {<<>>} \cup { <<b>> : b \in SmallPool }

\* A container of n objects named 1.json .. n.json, all loadable except
\* for at most two: position p1 holds defect k1, position p2 defect k2
\* (position 0: no defect).  Defect "other" is an object without the suffix.
Defects == {"malformed", "other"}
BigBlob(i, k) ==
    IF k = "other" THEN Blob(<<ToString(i)>> \o TXT_SUFFIX, "docA")
    ELSE Blob(<<ToString(i)>> \o JSON_SUFFIX, k)
BigListing(n, p1, k1, p2, k2) ==
    [i \in 1..n |-> IF i = p1 THEN BigBlob(i, k1)
                    ELSE IF i = p2 THEN BigBlob(i, k2)
                    ELSE BigBlob(i, "docA")]
BigSizes == {ExampleSize} \cup ((MAX_FILES - 1)..MaxBig)
BigListings ==
    { BigListing(n, p1, k1, p2, k2) :
        n \in BigSizes, p1 \in 0..MaxBig, k1 \in Defects,
        p2 \in {0, 2}, k2 \in {"unreadable"} }

\* The container as the store serves it: its objects in listing order, and
\* failAt, the number of objects list_blobs() yields before the store fails
\* (NoFail(blobs), a number the iteration never reaches: it runs to its end).
NoFail(blobs) == Len(blobs) + 1
Container(blobs, failAt) == [blobs |-> blobs, failAt |-> failAt]
SmallContainers ==
    UNION { { Container(l, f) : f \in 0..NoFail(l) } : l \in SmallListings }
EmptyContainer == Container(<<>>, NoFail(<<>>))
BigContainers ==
    { Container(l, f) : l \in BigListings, f \in {MAX_FILES} } \cup
    { Container(l, NoFail(l)) : l \in BigListings }

\* the containers of the facet specification: a.json and b.json in either
\* order, one of them, none, and a listing that fails after its first object
FacetA == Blob(<<"a">> \o JSON_SUFFIX, "docE")
FacetB == Blob(<<"b">> \o JSON_SUFFIX, "docM")
FacetListings == {<<>>, <<FacetA>>, <<FacetB>>, <<FacetA, FacetB>>, <<FacetB, FacetA>>}
FacetContainers ==
    { Container(l, NoFail(l)) : l \in FacetListings } \cup
    { Container(<<FacetA, FacetB>>, Len(<<FacetA>>)) }

\* the containers of the reader specification: two loadable objects, the
\* listing running to its end or failing after the first
RaceListing == <<FacetA, FacetB>>
RaceContainers ==
    { Container(RaceListing, NoFail(RaceListing)),
      Container(RaceListing, Len(<<FacetA>>)) }

\* occupation names asked for: none (all occupations), and one name
QueryNames == {<<>>, <<"a">>}
CapQueryNames == {<<>>, <<"1">>}
FacetQueryNames == {<<>>, <<"a">>, <<"z">>}

(* --------------------------- facet handlers ---------------------------- *)
\* A tool invocation: the handler called and content["arguments"], the
\* keys given and their values (a key not given holds its default).
OCC_NAME == "occupation"
RANK_CODE == "rank"
JOB_CODE == "job_code"
DUTY_AREA_CODE == "duty_area_code"

Request(facet, given, occupation, rank, job_code, duty_area_code) ==
    [facet |-> facet, given |-> given, occupation |-> occupation, rank |-> rank,
     job_code |-> job_code, duty_area_code |-> duty_area_code]
NoRequest == Request("none", {}, <<>>, "", "", "")

\* content["arguments"].get(key, "")
ArgGet(r, key) ==
    IF key \notin r.given THEN (IF key = OCC_NAME THEN <<>> ELSE "")
    ELSE r[key]

\* "occupation_name if occupation_name else None": None and the empty
\* name are the same to get_occupation_data, which tests "not occupation_name"
OccupationArg(r) == ArgGet(r, OCC_NAME)

\* the argument a handler requires, if any, and its "... is required" text
RequiredKey(facet) ==
    CASE facet = "get_job_codes_for_rank" -> RANK_CODE
      [] facet \in {"get_tasks_for_job_code", "get_skills_for_job_code",
                    "get_knowledge_for_job_code"} -> JOB_CODE
      [] facet = "get_tasks_for_duty_area" -> DUTY_AREA_CODE
      [] OTHER -> "none"
RequiredText(key) ==
    CASE key = RANK_CODE -> <<"Rank is required">>
      [] key = JOB_CODE -> <<"Job code is required">>
      [] OTHER -> <<"Duty area code is required">>

\* mutant of MissingRequired: the handler goes on without its argument
MissingRequired_Never(r) == FALSE

\* "if not rank:", "if not job_code:", "if not duty_area_code:"
MissingRequired(r) ==
    /\ RequiredKey(r.facet) # "none"
    /\ ArgGet(r, RequiredKey(r.facet)) = ""

\* what a handler returns: a JSON object
Response(body) == [kind |-> "response", body |-> body]

\* the text of the not-found structure
NotFoundText(name) == <<"Occupation '">> \o name \o <<"' not found">>

\* json.loads(occupations_content): the value get_occupation_data dumped,
\* a list (of collections, or the records of one) or the not-found object
ResponseData(r) ==
    CASE r.kind = "all" -> [type |-> "list", items |-> r.values]
      [] r.kind = "hit" -> [type |-> "list", items |-> r.val]
      [] OTHER -> [type |-> "dict", error |-> NotFoundText(r.name),
                   available_occupations |-> r.available]

\* mutant of IsErrorResponse: the handler does not look for the error
IsErrorResponse_Never(data) == FALSE

\* "isinstance(data, dict) and "error" in data"
IsErrorResponse(data) == data.type = "dict" /\ "error" \in DOMAIN data

\* the object json.dumps(data, indent=2) writes for such a response
ErrorBody(data) ==
    [error |-> data.error, available_occupations |-> data.available_occupations]

\* mutant of Flatten: the collections are taken last to first
RECURSIVE Flatten_Reversed(_)
Flatten_Reversed(collections) ==
    IF collections = <<>> THEN <<>>
    ELSE Flatten_Reversed(Tail(collections)) \o Head(collections)

\* "for occ_data in data: data_source.extend(occ_data)"
RECURSIVE Flatten(_)
Flatten(collections) ==
    IF collections = <<>> THEN <<>>
    ELSE Head(collections) \o Flatten(Tail(collections))

\* the handlers' data_source: the records of the collection named, or of
\* all collections
DataSource(occupation_name, data) ==
    IF occupation_name # <<>>
    THEN (IF data.type = "list" THEN data.items ELSE <<>>)
    ELSE Flatten(data.items)

\* record.get(field) and record.get(field, default); None is a value no
\* field of a record holds
None == "None"
Get(record, field) == IF field \in DOMAIN record THEN record[field] ELSE None
GetOr(record, field, default) ==
    IF field \in DOMAIN record THEN record[field] ELSE default

\* "occupation_name or "All"" and "job_code or "All""
ALL_NAME == <<"A", "l", "l">>
NameOrAll(occupation_name) == IF occupation_name = <<>> THEN ALL_NAME ELSE occupation_name
CodeOrAll(code) == IF code = "" THEN "All" ELSE code

\* The code points of the strings that get sorted: sorted() orders str
\* values by code point, position by position, a prefix before its extensions.
CodePoints(str) ==
    CASE str = "D1" -> <<68, 49>>
      [] str = "D2" -> <<68, 50>>
      [] str = "E1" -> <<69, 49>>
      [] str = "E2" -> <<69, 50>>
      [] str = "E9" -> <<69, 57>>
      [] str = "Unknown" -> <<85, 110, 107, 110, 111, 119, 110>>
      [] OTHER -> <<>>

\* str.__lt__
StrLess(a, b) ==
    LET x == CodePoints(a)
        y == CodePoints(b)
    IN  \E k \in 1..(Len(x) + 1) :
            /\ k <= Len(y)
            /\ SubSeq(x, 1, k - 1) = SubSeq(y, 1, k - 1)
            /\ (k = Len(x) + 1 \/ x[k] < y[k])

\* mutant of Sorted: the values in descending order
RECURSIVE Sorted_Descending(_)
Sorted_Descending(values) ==
    IF values = {} THEN <<>>
    ELSE LET top == CHOOSE v \in values : \A w \in values \ {v} : StrLess(w, v)
         IN  <<top>> \o Sorted_Descending(values \ {top})

\* sorted(...) of distinct strings: ascending
RECURSIVE Sorted(_)
Sorted(values) ==
    IF values = {} THEN <<>>
    ELSE LET least == CHOOSE v \in values : \A w \in values \ {v} : StrLess(v, w)
         IN  <<least>> \o Sorted(values \ {least})

\* get_all_ranks, from "ranks = sorted(list(set(...)))"
AllRanks(occupation_name, data_source) ==
    LET ranks == Sorted({ GetOr(data_source[i], "Rank", "Unknown") :
                             i \in 1..Len(data_source) })
    IN  [occupation_filter |-> NameOrAll(occupation_name),
         total_ranks |-> Len(ranks),
         ranks |-> ranks]

\* mutant of IsNewCode: a later record replaces the entry of its code
IsNewCode_Always(code, entries) == TRUE

\* "if job_code and job_code not in job_codes", "if code and code not in duty_areas"
IsNewCode(code, entries) == code # None /\ code # "" /\ ~DictHas(entries, code)

\* the loop over data_source of get_job_codes_for_rank
RECURSIVE JobCodesLoop(_, _, _)
JobCodesLoop(data_source, rank, job_codes) ==
    IF data_source = <<>> THEN job_codes
    ELSE LET record == Head(data_source)
             job_code == Get(record, "JobCode")
         IN  JobCodesLoop(Tail(data_source), rank,
                IF Get(record, "Rank") = rank /\ IsNewCode(job_code, job_codes)
                THEN DictSet(job_codes, job_code,
                        [job_code |-> job_code,
                         occupation_requirement |-> GetOr(record, "OccupationRequirement", "Unknown"),
                         occupation |-> GetOr(record, "Occupation", "Unknown")])
                ELSE job_codes)

\* get_job_codes_for_rank, from "job_codes = {}"
JobCodesForRank(rank, occupation_name, data_source) ==
    LET job_codes == JobCodesLoop(data_source, rank, <<>>) IN
    [rank_filter |-> rank,
     occupation_filter |-> NameOrAll(occupation_name),
     total_job_codes |-> Len(job_codes),
     job_codes |-> DictValues(job_codes)]

\* mutant of CategoryIs: the category is not looked at
CategoryIs_Any(record, category) == TRUE

\* "record.get('Category') == 'Task'" (or 'Skill', or 'Knowledge')
CategoryIs(record, category) == Get(record, "Category") = category

\* the records the loops of get_tasks_for_job_code, get_skills_for_job_code
\* and get_knowledge_for_job_code append an entry for, in the loop's order
RECURSIVE ForJobCodeLoop(_, _, _)
ForJobCodeLoop(data_source, job_code, category) ==
    IF data_source = <<>> THEN <<>>
    ELSE LET record == Head(data_source)
             rest == ForJobCodeLoop(Tail(data_source), job_code, category)
         IN  IF Get(record, "JobCode") = job_code /\ CategoryIs(record, category)
             THEN <<record>> \o rest
             ELSE rest

\* the entry appended for a record: the same five values under the
\* handler's labels (task_, skill_ or knowledge_)
TaskEntry(record) ==
    [task_code |-> Get(record, "TaskCode"),
     task_description |-> Get(record, "TaskDescription"),
     duty_area_code |-> Get(record, "DutyAreaGroupCode"),
     duty_area_name |-> Get(record, "DutyAreaGroupName"),
     is_required |-> GetOr(record, "IsRequired", FALSE)]
SkillEntry(record) ==
    [skill_code |-> Get(record, "TaskCode"),
     skill_description |-> Get(record, "TaskDescription"),
     duty_area_code |-> Get(record, "DutyAreaGroupCode"),
     duty_area_name |-> Get(record, "DutyAreaGroupName"),
     is_required |-> GetOr(record, "IsRequired", FALSE)]
KnowledgeEntry(record) ==
    [knowledge_code |-> Get(record, "TaskCode"),
     knowledge_description |-> Get(record, "TaskDescription"),
     duty_area_code |-> Get(record, "DutyAreaGroupCode"),
     duty_area_name |-> Get(record, "DutyAreaGroupName"),
     is_required |-> GetOr(record, "IsRequired", FALSE)]

\* get_tasks_for_job_code, from "tasks = []"
TasksForJobCode(job_code, occupation_name, data_source) ==
    LET matching == ForJobCodeLoop(data_source, job_code, "Task")
        tasks == [i \in 1..Len(matching) |-> TaskEntry(matching[i])]
    IN  [job_code_filter |-> job_code,
         occupation_filter |-> NameOrAll(occupation_name),
         total_tasks |-> Len(tasks),
         tasks |-> tasks]

\* get_skills_for_job_code, from "skills = []"
SkillsForJobCode(job_code, occupation_name, data_source) ==
    LET matching == ForJobCodeLoop(data_source, job_code, "Skill")
        skills == [i \in 1..Len(matching) |-> SkillEntry(matching[i])]
    IN  [job_code_filter |-> job_code,
         occupation_filter |-> NameOrAll(occupation_name),
         total_skills |-> Len(skills),
         skills |-> skills]

\* get_knowledge_for_job_code, from "knowledge_items = []"
KnowledgeForJobCode(job_code, occupation_name, data_source) ==
    LET matching == ForJobCodeLoop(data_source, job_code, "Knowledge")
        knowledge_items == [i \in 1..Len(matching) |-> KnowledgeEntry(matching[i])]
    IN  [job_code_filter |-> job_code,
         occupation_filter |-> NameOrAll(occupation_name),
         total_knowledge_items |-> Len(knowledge_items),
         knowledge_items |-> knowledge_items]

\* mutant of SkipForJobCode: the job code is compared even when none is given
SkipForJobCode_Strict(job_code, record) == Get(record, "JobCode") # job_code

\* "if job_code and record.get('JobCode') != job_code: continue"
SkipForJobCode(job_code, record) == job_code # "" /\ Get(record, "JobCode") # job_code

\* the loop over data_source of get_tasks_for_duty_area
RECURSIVE ForDutyAreaLoop(_, _, _)
ForDutyAreaLoop(data_source, duty_area_code, job_code) ==
    IF data_source = <<>> THEN <<>>
    ELSE LET record == Head(data_source)
             rest == ForDutyAreaLoop(Tail(data_source), duty_area_code, job_code)
         IN  IF /\ Get(record, "DutyAreaGroupCode") = duty_area_code
                /\ Get(record, "Category") = "Task"
                /\ ~SkipForJobCode(job_code, record)
             THEN << [task_code |-> Get(record, "TaskCode"),
                      task_description |-> Get(record, "TaskDescription"),
                      job_code |-> Get(record, "JobCode"),
                      rank |-> Get(record, "Rank"),
                      is_required |-> GetOr(record, "IsRequired", FALSE)] >> \o rest
             ELSE rest

\* get_tasks_for_duty_area, from "tasks = []"
TasksForDutyArea(duty_area_code, job_code, occupation_name, data_source) ==
    LET tasks == ForDutyAreaLoop(data_source, duty_area_code, job_code) IN
    [duty_area_code_filter |-> duty_area_code,
     job_code_filter |-> CodeOrAll(job_code),
     occupation_filter |-> NameOrAll(occupation_name),
     total_tasks |-> Len(tasks),
     tasks |-> tasks]

\* the loop over data_source of get_all_duty_areas
RECURSIVE DutyAreasLoop(_, _)
DutyAreasLoop(data_source, duty_areas) ==
    IF data_source = <<>> THEN duty_areas
    ELSE LET record == Head(data_source)
             code == Get(record, "DutyAreaGroupCode")
         IN  DutyAreasLoop(Tail(data_source),
                IF IsNewCode(code, duty_areas)
                THEN DictSet(duty_areas, code,
                        [code |-> code, name |-> Get(record, "DutyAreaGroupName")])
                ELSE duty_areas)

\* sorted(duty_areas.values(), key=lambda x: x['code'])
SortByCode_Unsorted(duty_areas) == DictValues(duty_areas)
\* (the same, left in insertion order)

SortByCode(duty_areas) ==
    LET codes == Sorted({ duty_areas[i].key : i \in 1..Len(duty_areas) })
    IN  [i \in 1..Len(codes) |-> DictGet(duty_areas, codes[i])]

\* get_all_duty_areas, from "duty_areas = {}"
AllDutyAreas(occupation_name, data_source) ==
    LET duty_areas == DutyAreasLoop(data_source, <<>>)
        sorted_duty_areas == SortByCode(duty_areas)
    IN  [occupation_filter |-> NameOrAll(occupation_name),
         total_duty_areas |-> Len(sorted_duty_areas),
         duty_areas |-> sorted_duty_areas]

Facets ==
    {"get_all_ranks", "get_job_codes_for_rank", "get_tasks_for_job_code",
     "get_tasks_for_duty_area", "get_skills_for_job_code",
     "get_knowledge_for_job_code", "get_all_duty_areas"}

\* the envelope handler r.facet builds from its data_source
Envelope(r, data_source) ==
    LET occupation_name == ArgGet(r, OCC_NAME) IN
    CASE r.facet = "get_all_ranks" -> AllRanks(occupation_name, data_source)
      [] r.facet = "get_job_codes_for_rank" ->
            JobCodesForRank(ArgGet(r, RANK_CODE), occupation_name, data_source)
      [] r.facet = "get_tasks_for_job_code" ->
            TasksForJobCode(ArgGet(r, JOB_CODE), occupation_name, data_source)
      [] r.facet = "get_tasks_for_duty_area" ->
            TasksForDutyArea(ArgGet(r, DUTY_AREA_CODE), ArgGet(r, JOB_CODE),
                             occupation_name, data_source)
      [] r.facet = "get_skills_for_job_code" ->
            SkillsForJobCode(ArgGet(r, JOB_CODE), occupation_name, data_source)
      [] r.facet = "get_knowledge_for_job_code" ->
            KnowledgeForJobCode(ArgGet(r, JOB_CODE), occupation_name, data_source)
      [] OTHER -> AllDutyAreas(occupation_name, data_source)

\* a handler from "data = json.loads(occupations_content)" to its return
HandlerBody(r, response) ==
    LET data == ResponseData(response) IN
    IF IsErrorResponse(data) THEN ErrorBody(data)
    ELSE Envelope(r, DataSource(ArgGet(r, OCC_NAME), data))

\* the invocations made: each argument not given, given empty, or given
\* one of its values
RankValues == {"E1", "E2", "E9"}
JobCodeValues == {"A1", "B2"}
DutyAreaValues == {"D1"}
Optional(key, values) ==
    { <<{}, "">> } \cup { <<{key}, v>> : v \in values \cup {""} }
OptionalName == { <<{}, <<>>>> } \cup { <<{OCC_NAME}, n>> : n \in FacetQueryNames }
FacetRequests ==
    { Request(f, o[1], o[2], "", "", "") :
        f \in {"get_all_ranks", "get_all_duty_areas"}, o \in OptionalName } \cup
    { Request("get_job_codes_for_rank", o[1] \cup k[1], o[2], k[2], "", "") :
        o \in OptionalName, k \in Optional(RANK_CODE, RankValues) } \cup
    { Request(f, o[1] \cup j[1], o[2], "", j[2], "") :
        f \in {"get_tasks_for_job_code", "get_skills_for_job_code",
               "get_knowledge_for_job_code"},
        o \in OptionalName, j \in Optional(JOB_CODE, JobCodeValues) } \cup
    { Request("get_tasks_for_duty_area", o[1] \cup j[1] \cup d[1], o[2], "", j[2], d[2]) :
        o \in OptionalName, j \in Optional(JOB_CODE, JobCodeValues),
        d \in Optional(DUTY_AREA_CODE, DutyAreaValues) }

(* ------------------------------- state --------------------------------- *)
VARIABLES
    occupation_data,      \* self._occupation_data
    is_loaded,            \* self._is_loaded
    blob_service_client,  \* self._blob_service_client: "none" or "client"
    lock,                 \* holder of OccupationDataCache._lock, or NoThread
    instance,             \* OccupationDataCache._instance: who created it, the attributes set on it
    env,                  \* the process environment
    catalog,              \* the objects of container "occupation", in listing order
    pc,                   \* each thread's position
    op,                   \* the call each thread is in: "get", "names", "clear", a facet handler, or "none"
    arg,                  \* occupation_name of a get call
    req,                  \* the invocation a facet handler is answering
    listing,              \* the listing a loading thread iterates over
    idx,                  \* how many objects of it the loop has taken
    file_count,           \* the loop's file_count
    outcome,              \* how the thread's pass through _load_all_occupations went
    result,               \* the value a call returns
    fetched,              \* objects downloaded by the load sequence of this generation, with success
    lastLoad,             \* that load sequence: its listing, objects taken, listing error
    nCalls,               \* calls made
    nStoreChanges,        \* replacements of the container
    nLoads,               \* load sequences started
    nAborted,             \* load sequences left by an exception
    nClears,              \* flag resets by clear_cache
    nClearCalls,          \* clear_cache calls made
    loadsInGen,           \* load sequences started since the last flag reset
    abortedInGen          \* of these, left by an exception

shared == <<occupation_data, is_loaded, blob_service_client, lock, instance>>
world == <<env, catalog, nStoreChanges>>
locals == <<listing, idx, file_count, outcome>>
calls == <<op, arg, req, result, nCalls, nClearCalls>>
ghosts == <<fetched, lastLoad, nLoads, nAborted, nClears, loadsInGen, abortedInGen>>
vars == <<shared, world, pc, locals, calls, ghosts>>

NoResult == [kind |-> "none"]
NoListing == EmptyContainer
NoLoad == [listing |-> <<>>, taken |-> 0, listErr |-> FALSE, how |-> "none"]

\* the attributes __new__ sets on the instance it creates
Attributes == {"_occupation_data", "_is_loaded", "_blob_service_client"}
\* cls._instance = None
NoInstance == [id |-> NoThread, attrs |-> {}]
\* the thread that imports the module and runs "occupation_cache =
\* OccupationDataCache()"
ImportThread == 1

\* no thread has called anything; the three attributes have their first
\* values (which nobody can read while the instance lacks the attribute)
InitBefore ==
    /\ occupation_data = <<>>
    /\ is_loaded = FALSE
    /\ blob_service_client = "none"
    /\ lock = NoThread
    /\ pc = [t \in Threads |-> "idle"]
    /\ op = [t \in Threads |-> "none"]
    /\ arg = [t \in Threads |-> <<>>]
    /\ req = [t \in Threads |-> NoRequest]
    /\ listing = [t \in Threads |-> NoListing]
    /\ idx = [t \in Threads |-> 0]
    /\ file_count = [t \in Threads |-> 0]
    /\ outcome = [t \in Threads |-> "none"]
    /\ result = [t \in Threads |-> NoResult]
    /\ fetched = <<>>
    /\ lastLoad = NoLoad
    /\ nCalls = 0
    /\ nStoreChanges = 0
    /\ nLoads = 0
    /\ nAborted = 0
    /\ nClears = 0
    /\ nClearCalls = 0
    /\ loadsInGen = 0
    /\ abortedInGen = 0

\* the state after the import of the module: the instance constructed
InitCommon ==
    /\ InitBefore
    /\ instance = [id |-> ImportThread, attrs |-> Attributes]

Init ==
    /\ InitCommon
    /\ env \in Envs
    /\ catalog \in (IF GetBlobClient("none", env) = "client"
                    THEN SmallContainers ELSE {EmptyContainer})

(* ------------------------------- calls --------------------------------- *)
\* A thread is free for its next call when it has made none yet or when its
\* last call has returned ("done") or raised; what that call returned stays
\* in result until the next call.
Free(t) == pc[t] \in {"idle", "done", "raised", "keyerror"}

\* where a caller goes on when _load_all_occupations returns
AfterLoad(o) == IF o = "names" THEN "n_read" ELSE "g_read"

\* where a thread goes on when get_occupation_data returns: back to its
\* caller, or on in the facet handler that called it
AfterGet(o) == IF o = "get" THEN "done" ELSE "f_filter"

\* mutant of LoadCheck1: no test outside the lock
LoadCheck1_AlwaysLock(o) == "l_acquire"

\* "if self._is_loaded: return", the test outside the lock: the first
\* statement of _load_all_occupations, which is the first statement of
\* get_occupation_data and of get_all_occupations
LoadCheck1(o) == IF is_loaded THEN AfterLoad(o) ELSE "l_acquire"

\* the pass is "fast" when that test returns, without the lock
PathTaken(next) == IF next = "l_acquire" THEN "none" ELSE "fast"

\* get_occupation_data(name) is entered and tests the flag
CallGet(t, name) ==
    /\ Free(t)
    /\ nCalls < MaxCalls
    /\ pc' = [pc EXCEPT ![t] = LoadCheck1("get")]
    /\ outcome' = [outcome EXCEPT ![t] = PathTaken(LoadCheck1("get"))]
    /\ op' = [op EXCEPT ![t] = "get"]
    /\ arg' = [arg EXCEPT ![t] = name]
    /\ req' = [req EXCEPT ![t] = NoRequest]
    /\ result' = [result EXCEPT ![t] = NoResult]
    /\ nCalls' = nCalls + 1
    /\ UNCHANGED <<shared, world, listing, idx, file_count, nClearCalls, ghosts>>

\* get_all_occupations() is entered and tests the flag
CallNames(t) ==
    /\ Free(t)
    /\ nCalls < MaxCalls
    /\ pc' = [pc EXCEPT ![t] = LoadCheck1("names")]
    /\ outcome' = [outcome EXCEPT ![t] = PathTaken(LoadCheck1("names"))]
    /\ op' = [op EXCEPT ![t] = "names"]
    /\ arg' = [arg EXCEPT ![t] = <<>>]
    /\ req' = [req EXCEPT ![t] = NoRequest]
    /\ result' = [result EXCEPT ![t] = NoResult]
    /\ nCalls' = nCalls + 1
    /\ UNCHANGED <<shared, world, listing, idx, file_count, nClearCalls, ghosts>>

\* clear_cache() is entered
CallClear(t) ==
    /\ Free(t)
    /\ nCalls < MaxCalls
    /\ pc' = [pc EXCEPT ![t] = "c_acquire"]
    /\ op' = [op EXCEPT ![t] = "clear"]
    /\ arg' = [arg EXCEPT ![t] = <<>>]
    /\ req' = [req EXCEPT ![t] = NoRequest]
    /\ result' = [result EXCEPT ![t] = NoResult]
    /\ nCalls' = nCalls + 1
    /\ nClearCalls' = nClearCalls + 1
    /\ UNCHANGED <<shared, world, locals, ghosts>>

(* ----------------------- _load_all_occupations ------------------------- *)
\* (its first statement, the test of the flag outside the lock, is LoadCheck1)

\* mutant of CanAcquire: the lock excludes nobody
CanAcquire_Always(l) == TRUE

\* Lock.acquire succeeds only on a free lock
CanAcquire(l) == l = NoThread

\* "with self._lock:" is entered
LoadAcquire(t) ==
    /\ pc[t] = "l_acquire"
    /\ CanAcquire(lock)
    /\ lock' = t
    /\ pc' = [pc EXCEPT ![t] = "l_check2"]
    /\ UNCHANGED <<occupation_data, is_loaded, blob_service_client, world, locals, calls, ghosts>>
    /\ UNCHANGED instance

\* mutant of AlreadyLoaded: no second test
AlreadyLoaded_Never(flag) == FALSE

\* the second test of the flag, under the lock
AlreadyLoaded(flag) == flag

\* "if self._is_loaded: return"; otherwise the load sequence starts
LoadCheck2(t) ==
    /\ pc[t] = "l_check2"
    /\ IF AlreadyLoaded(is_loaded)
       THEN /\ outcome' = [outcome EXCEPT ![t] = "skipped"]
            /\ pc' = [pc EXCEPT ![t] = "l_release"]
            /\ UNCHANGED ghosts
       ELSE /\ outcome' = [outcome EXCEPT ![t] = "running"]
            /\ pc' = [pc EXCEPT ![t] = "l_client"]
            /\ nLoads' = nLoads + 1
            /\ loadsInGen' = loadsInGen + 1
            /\ fetched' = <<>>
            /\ lastLoad' = [NoLoad EXCEPT !.how = "running"]
            /\ UNCHANGED <<nAborted, nClears, abortedInGen>>
    /\ UNCHANGED <<shared, world, listing, idx, file_count, calls>>

\* "blob_client = self._get_blob_client()" and "if not blob_client:"
LoadClient(t) ==
    /\ pc[t] = "l_client"
    /\ LET r == GetBlobClient(blob_service_client, env) IN
       CASE r = "raise" ->
              /\ outcome' = [outcome EXCEPT ![t] = "aborted"]
              /\ pc' = [pc EXCEPT ![t] = "l_release"]
              /\ nAborted' = nAborted + 1
              /\ abortedInGen' = abortedInGen + 1
              /\ lastLoad' = [lastLoad EXCEPT !.how = "aborted"]
              /\ UNCHANGED <<blob_service_client, fetched, nLoads, nClears, loadsInGen>>
         [] r = "none" ->
              /\ outcome' = [outcome EXCEPT ![t] = "unconfigured"]
              /\ pc' = [pc EXCEPT ![t] = "l_mark"]
              /\ lastLoad' = [lastLoad EXCEPT !.how = "unconfigured"]
              /\ UNCHANGED <<blob_service_client, fetched, nLoads, nAborted, nClears,
                             loadsInGen, abortedInGen>>
         [] OTHER ->
              /\ blob_service_client' = "client"
              /\ pc' = [pc EXCEPT ![t] = "l_list"]
              /\ UNCHANGED <<outcome, ghosts>>
    /\ UNCHANGED <<occupation_data, is_loaded, lock, world, listing, idx, file_count, calls>>
    /\ UNCHANGED instance

\* "file_count = 0" and "container_client.list_blobs()"
LoadList(t) ==
    /\ pc[t] = "l_list"
    /\ listing' = [listing EXCEPT ![t] = catalog]
    /\ idx' = [idx EXCEPT ![t] = 0]
    /\ file_count' = [file_count EXCEPT ![t] = 0]
    /\ lastLoad' = [lastLoad EXCEPT !.listing = catalog.blobs]
    /\ pc' = [pc EXCEPT ![t] = "l_iter"]
    /\ UNCHANGED <<shared, world, outcome, calls, fetched, nLoads, nAborted, nClears,
                   loadsInGen, abortedInGen>>

\* mutants of CapReached: the test off by one, and no test at all
CapReached_OffByOne(fc) == fc > MAX_FILES
CapReached_Never(fc) == FALSE

\* "if file_count >= 20: break"
CapReached(fc) == fc >= MAX_FILES

\* the key a blob is stored under
OccupationName(blob) == StripSuffix(blob.name)

\* mutant of CountAfter: every download counts, failed or not
CountAfter_Attempts(fc, ok) == fc + 1

\* file_count after a download: "file_count += 1" is the last statement of
\* the try block, reached only when the blob was parsed and stored
CountAfter(fc, ok) == IF ok THEN fc + 1 ELSE fc

\* mutant of AfterFailure: a failing object ends the load
AfterFailure_Abort == "l_except"

\* where the loop goes on after "except json.JSONDecodeError" or
\* "except Exception" of the inner try: the next turn
AfterFailure == "l_iter"

\* mutant of FlagAfterError: the handler leaves the flag as it is
FlagAfterError_Keep(flag) == flag

\* the flag after the outer "except Exception"
FlagAfterError(flag) == TRUE

\* One turn of "for blob in container_client.list_blobs():" with its body:
\* the iterator raises (the outer except), is exhausted (the loop ends),
\* or yields the next blob, which ends the loop at the cap, is passed over
\* without the suffix, or is downloaded, parsed and stored.
LoadIter(t) ==
    /\ pc[t] = "l_iter"
    /\ LET l == listing[t]
           i == idx[t]
       IN
       IF l.failAt = i
       THEN /\ outcome' = [outcome EXCEPT ![t] = "listfail"]
            /\ lastLoad' = [lastLoad EXCEPT !.listErr = TRUE, !.how = "listfail"]
            /\ pc' = [pc EXCEPT ![t] = "l_except"]
            /\ UNCHANGED <<occupation_data, idx, file_count, fetched>>
       ELSE IF i = Len(l.blobs)
       THEN /\ outcome' = [outcome EXCEPT ![t] = "complete"]
            /\ lastLoad' = [lastLoad EXCEPT !.how = "complete"]
            /\ pc' = [pc EXCEPT ![t] = "l_mark"]
            /\ UNCHANGED <<occupation_data, idx, file_count, fetched>>
       ELSE LET blob == l.blobs[i + 1] IN
            /\ idx' = [idx EXCEPT ![t] = i + 1]
            /\ IF CapReached(file_count[t])
               THEN /\ outcome' = [outcome EXCEPT ![t] = "complete"]
                    /\ lastLoad' = [lastLoad EXCEPT !.taken = i + 1, !.how = "complete"]
                    /\ pc' = [pc EXCEPT ![t] = "l_mark"]
                    /\ UNCHANGED <<occupation_data, file_count, fetched>>
               ELSE /\ lastLoad' = [lastLoad EXCEPT !.taken = i + 1]
                    /\ UNCHANGED outcome
                    /\ IF ~EndsWithJson(blob.name)
                       THEN UNCHANGED <<occupation_data, file_count, fetched, pc>>
                       ELSE /\ fetched' = Append(fetched, [name |-> blob.name, ok |-> Loadable(blob)])
                            /\ file_count' = [file_count EXCEPT ![t] = CountAfter(@, Loadable(blob))]
                            /\ IF Loadable(blob)
                               THEN /\ occupation_data' =
                                         DictSet(occupation_data, OccupationName(blob),
                                                 JsonLoads(blob.content))
                                    /\ UNCHANGED pc
                               ELSE /\ pc' = [pc EXCEPT ![t] = AfterFailure]
                                    /\ UNCHANGED occupation_data
    /\ UNCHANGED <<is_loaded, blob_service_client, lock, world, listing, calls,
                   nLoads, nAborted, nClears, loadsInGen, abortedInGen>>
    /\ UNCHANGED instance

\* mutant of FlagAfterLoad: the load leaves the flag unset
FlagAfterLoad_Unset == FALSE

\* the flag after the loop, or on the unconfigured path
FlagAfterLoad == TRUE

\* "self._is_loaded = True" after the loop, or on the unconfigured path
LoadMark(t) ==
    /\ pc[t] = "l_mark"
    /\ is_loaded' = FlagAfterLoad
    /\ pc' = [pc EXCEPT ![t] = "l_release"]
    /\ UNCHANGED <<occupation_data, blob_service_client, lock, world, locals, calls, ghosts>>
    /\ UNCHANGED instance

\* "except Exception: ... self._is_loaded = True"
LoadExcept(t) ==
    /\ pc[t] = "l_except"
    /\ is_loaded' = FlagAfterError(is_loaded)
    /\ pc' = [pc EXCEPT ![t] = "l_release"]
    /\ UNCHANGED <<occupation_data, blob_service_client, lock, world, locals, calls, ghosts>>
    /\ UNCHANGED instance

\* mutant of LockAfterExit: the exception leaves the lock held
LockAfterExit_HeldOnRaise(t, how) == IF how = "aborted" THEN t ELSE NoThread

\* the lock when thread t leaves a with block, by return or (how =
\* "aborted") by an exception: __exit__ releases it either way
LockAfterExit(t, how) == NoThread

\* The with block is left and _load_all_occupations with it, by return or
\* by the exception of _get_blob_client: the lock is released and the
\* method's frame dropped.
LoadRelease(t) ==
    /\ pc[t] = "l_release"
    /\ lock' = LockAfterExit(t, outcome[t])
    /\ pc' = [pc EXCEPT ![t] = IF outcome[t] = "aborted" THEN "raised" ELSE AfterLoad(op[t])]
    /\ listing' = [listing EXCEPT ![t] = NoListing]
    /\ idx' = [idx EXCEPT ![t] = 0]
    /\ file_count' = [file_count EXCEPT ![t] = 0]
    /\ outcome' = [outcome EXCEPT ![t] = "none"]
    /\ UNCHANGED <<occupation_data, is_loaded, blob_service_client, world, calls, ghosts>>
    /\ UNCHANGED instance

(* ------------------------- get_occupation_data ------------------------- *)
\* mutant of AvailableNames: the names in another order
AvailableNames_Reversed(d) == [i \in 1..Len(d) |-> d[Len(d) + 1 - i].key]

\* "available = list(self._occupation_data.keys())"
AvailableNames(d) == DictKeys(d)

\* what get_occupation_data(name) answers from a dict nobody changes meanwhile
Lookup(d, name) ==
    IF name = <<>> THEN [kind |-> "all", values |-> DictValues(d)]
    ELSE IF DictHas(d, name) THEN [kind |-> "hit", val |-> DictGet(d, name)]
    ELSE [kind |-> "notfound", name |-> name, available |-> AvailableNames(d)]

\* "if not occupation_name: return all"; "if occupation_name in self._occupation_data"
GetRead(t) ==
    /\ pc[t] = "g_read"
    /\ IF arg[t] = <<>>
       THEN /\ result' = [result EXCEPT ![t] = [kind |-> "all", values |-> DictValues(occupation_data)]]
            /\ pc' = [pc EXCEPT ![t] = AfterGet(op[t])]
       ELSE /\ pc' = [pc EXCEPT ![t] = IF DictHas(occupation_data, arg[t]) THEN "g_hit" ELSE "g_miss"]
            /\ UNCHANGED result
    /\ outcome' = [outcome EXCEPT ![t] = "none"]
    /\ UNCHANGED <<shared, world, listing, idx, file_count, op, arg, req, nCalls, nClearCalls, ghosts>>

\* "return json.dumps(self._occupation_data[occupation_name])": a KeyError
\* when the key has gone since the test
GetHit(t) ==
    /\ pc[t] = "g_hit"
    /\ IF DictHas(occupation_data, arg[t])
       THEN /\ result' = [result EXCEPT ![t] = [kind |-> "hit", val |-> DictGet(occupation_data, arg[t])]]
            /\ pc' = [pc EXCEPT ![t] = AfterGet(op[t])]
       ELSE /\ pc' = [pc EXCEPT ![t] = "keyerror"]
            /\ UNCHANGED result
    /\ outcome' = [outcome EXCEPT ![t] = "none"]
    /\ UNCHANGED <<shared, world, listing, idx, file_count, op, arg, req, nCalls, nClearCalls, ghosts>>

\* the not-found structure with the names available
GetMiss(t) ==
    /\ pc[t] = "g_miss"
    /\ result' = [result EXCEPT ![t] =
          [kind |-> "notfound", name |-> arg[t], available |-> AvailableNames(occupation_data)]]
    /\ pc' = [pc EXCEPT ![t] = AfterGet(op[t])]
    /\ outcome' = [outcome EXCEPT ![t] = "none"]
    /\ UNCHANGED <<shared, world, listing, idx, file_count, op, arg, req, nCalls, nClearCalls, ghosts>>

(* ------------------------- get_all_occupations ------------------------- *)
NamesRead(t) ==
    /\ pc[t] = "n_read"
    /\ result' = [result EXCEPT ![t] = [kind |-> "names", names |-> DictKeys(occupation_data)]]
    /\ pc' = [pc EXCEPT ![t] = "done"]
    /\ outcome' = [outcome EXCEPT ![t] = "none"]
    /\ UNCHANGED <<shared, world, listing, idx, file_count, op, arg, req, nCalls, nClearCalls, ghosts>>

(* ------------------------------ clear_cache ---------------------------- *)
ClearAcquire(t) ==
    /\ pc[t] = "c_acquire"
    /\ CanAcquire(lock)
    /\ lock' = t
    /\ pc' = [pc EXCEPT ![t] = "c_clear"]
    /\ UNCHANGED <<occupation_data, is_loaded, blob_service_client, world, locals, calls, ghosts>>
    /\ UNCHANGED instance

\* mutant of Cleared: the dict is not emptied
Cleared_Keep(d) == d

\* what "self._occupation_data.clear()" leaves
Cleared(d) == <<>>

ClearDict(t) ==
    /\ pc[t] = "c_clear"
    /\ occupation_data' = Cleared(occupation_data)
    /\ pc' = [pc EXCEPT ![t] = "c_reset"]
    /\ UNCHANGED <<is_loaded, blob_service_client, lock, world, locals, calls, ghosts>>
    /\ UNCHANGED instance

\* "self._is_loaded = False"
ClearReset(t) ==
    /\ pc[t] = "c_reset"
    /\ is_loaded' = FALSE
    /\ nClears' = nClears + 1
    /\ loadsInGen' = 0
    /\ abortedInGen' = 0
    /\ fetched' = <<>>
    /\ lastLoad' = NoLoad
    /\ pc' = [pc EXCEPT ![t] = "c_release"]
    /\ UNCHANGED <<occupation_data, blob_service_client, lock, world, locals, calls,
                   nLoads, nAborted>>
    /\ UNCHANGED instance

ClearRelease(t) ==
    /\ pc[t] = "c_release"
    /\ lock' = LockAfterExit(t, "returned")
    /\ pc' = [pc EXCEPT ![t] = "done"]
    /\ UNCHANGED <<occupation_data, is_loaded, blob_service_client, world, locals, calls, ghosts>>
    /\ UNCHANGED instance

\* is_loaded() and get_occupation_count()
IsLoaded == is_loaded
get_occupation_count == Len(occupation_data)

(* ------------------------------- __new__ ------------------------------- *)
\* "if cls._instance is None:", the test outside the lock
NewCheck1 == IF instance.id = NoThread THEN "n_acquire" ELSE "n_return"

\* OccupationDataCache() is called
CallNew(t) ==
    /\ Free(t)
    /\ nCalls < MaxCalls
    /\ pc' = [pc EXCEPT ![t] = NewCheck1]
    /\ op' = [op EXCEPT ![t] = "new"]
    /\ arg' = [arg EXCEPT ![t] = <<>>]
    /\ req' = [req EXCEPT ![t] = NoRequest]
    /\ result' = [result EXCEPT ![t] = NoResult]
    /\ nCalls' = nCalls + 1
    /\ UNCHANGED <<shared, world, locals, nClearCalls, ghosts>>

\* "with cls._lock:"
NewAcquire(t) ==
    /\ pc[t] = "n_acquire"
    /\ CanAcquire(lock)
    /\ lock' = t
    /\ pc' = [pc EXCEPT ![t] = "n_check2"]
    /\ UNCHANGED <<occupation_data, is_loaded, blob_service_client, instance,
                   world, locals, calls, ghosts>>

\* "if cls._instance is None:", under the lock
NewCheck2(t) ==
    /\ pc[t] = "n_check2"
    /\ pc' = [pc EXCEPT ![t] = IF instance.id = NoThread THEN "n_create" ELSE "n_release"]
    /\ UNCHANGED <<shared, world, locals, calls, ghosts>>

\* "cls._instance = super().__new__(cls)": the new object, with none of
\* the attributes yet
Created(t) == [id |-> t, attrs |-> {}]

NewCreate(t) ==
    /\ pc[t] = "n_create"
    /\ instance' = Created(t)
    /\ pc' = [pc EXCEPT ![t] = "n_data"]
    /\ UNCHANGED <<occupation_data, is_loaded, blob_service_client, lock,
                   world, locals, calls, ghosts>>

\* "cls._instance._occupation_data = {}"
NewData(t) ==
    /\ pc[t] = "n_data"
    /\ occupation_data' = <<>>
    /\ instance' = [instance EXCEPT !.attrs = @ \cup {"_occupation_data"}]
    /\ pc' = [pc EXCEPT ![t] = "n_flag"]
    /\ UNCHANGED <<is_loaded, blob_service_client, lock, world, locals, calls, ghosts>>

\* "cls._instance._is_loaded = False"
NewFlag(t) ==
    /\ pc[t] = "n_flag"
    /\ is_loaded' = FALSE
    /\ instance' = [instance EXCEPT !.attrs = @ \cup {"_is_loaded"}]
    /\ pc' = [pc EXCEPT ![t] = "n_client"]
    /\ UNCHANGED <<occupation_data, blob_service_client, lock, world, locals, calls, ghosts>>

\* "cls._instance._blob_service_client = None"
NewClient(t) ==
    /\ pc[t] = "n_client"
    /\ blob_service_client' = "none"
    /\ instance' = [instance EXCEPT !.attrs = @ \cup {"_blob_service_client"}]
    /\ pc' = [pc EXCEPT ![t] = "n_release"]
    /\ UNCHANGED <<occupation_data, is_loaded, lock, world, locals, calls, ghosts>>

\* the with block is left
NewRelease(t) ==
    /\ pc[t] = "n_release"
    /\ lock' = NoThread
    /\ pc' = [pc EXCEPT ![t] = "n_return"]
    /\ UNCHANGED <<occupation_data, is_loaded, blob_service_client, instance,
                   world, locals, calls, ghosts>>

\* "return cls._instance": the caller receives the object as it is now
NewReturn(t) ==
    /\ pc[t] = "n_return"
    /\ result' = [result EXCEPT ![t] =
          [kind |-> "instance", id |-> instance.id, attrs |-> instance.attrs]]
    /\ pc' = [pc EXCEPT ![t] = "done"]
    /\ UNCHANGED <<shared, world, locals, op, arg, req, nCalls, nClearCalls, ghosts>>

NewStep(t) ==
    \/ CallNew(t)
    \/ NewAcquire(t)
    \/ NewCheck2(t)
    \/ NewCreate(t)
    \/ NewData(t)
    \/ NewFlag(t)
    \/ NewClient(t)
    \/ NewRelease(t)
    \/ NewReturn(t)

(* ------------------------- the facet handlers -------------------------- *)
\* A handler is entered with invocation r: it reads its arguments and
\* returns at once when the one it requires is missing; otherwise it calls
\* get_occupation_data, which tests the flag.
CallFacet(t, r) ==
    /\ Free(t)
    /\ nCalls < MaxCalls
    /\ op' = [op EXCEPT ![t] = r.facet]
    /\ arg' = [arg EXCEPT ![t] = OccupationArg(r)]
    /\ req' = [req EXCEPT ![t] = r]
    /\ nCalls' = nCalls + 1
    /\ IF MissingRequired(r)
       THEN /\ result' = [result EXCEPT ![t] =
                  Response([error |-> RequiredText(RequiredKey(r.facet))])]
            /\ pc' = [pc EXCEPT ![t] = "done"]
            /\ outcome' = [outcome EXCEPT ![t] = "none"]
       ELSE /\ result' = [result EXCEPT ![t] = NoResult]
            /\ pc' = [pc EXCEPT ![t] = LoadCheck1(r.facet)]
            /\ outcome' = [outcome EXCEPT ![t] = PathTaken(LoadCheck1(r.facet))]
    /\ UNCHANGED <<shared, world, listing, idx, file_count, nClearCalls, ghosts>>

\* get_occupation_data has returned: the handler parses the answer and
\* returns the not-found structure or its envelope
FacetFilter(t) ==
    /\ pc[t] = "f_filter"
    /\ result' = [result EXCEPT ![t] = Response(HandlerBody(req[t], result[t]))]
    /\ pc' = [pc EXCEPT ![t] = "done"]
    /\ outcome' = [outcome EXCEPT ![t] = "none"]
    /\ UNCHANGED <<shared, world, listing, idx, file_count, op, arg, req, nCalls,
                   nClearCalls, ghosts>>

FacetStep(t) ==
    \/ \E r \in FacetRequests : CallFacet(t, r)
    \/ FacetFilter(t)

(* ------------------------------ the store ------------------------------ *)
\* An external writer replaces the container's content.  A listing is
\* taken in one step, so only the content at that step matters: the change
\* is taken right before a thread lists.
StoreChange ==
    /\ nStoreChanges < MaxStoreChanges
    /\ \E t \in Threads : pc[t] = "l_list"
    /\ \E c \in SmallContainers :
         /\ c # catalog
         /\ catalog' = c
    /\ nStoreChanges' = nStoreChanges + 1
    /\ UNCHANGED <<shared, env, pc, locals, calls, ghosts>>

Step(t, names) ==
    \/ \E name \in names : CallGet(t, name)
    \/ CallNames(t)
    \/ CallClear(t)
    \/ LoadAcquire(t)
    \/ LoadCheck2(t)
    \/ LoadClient(t)
    \/ LoadList(t)
    \/ LoadIter(t)
    \/ LoadMark(t)
    \/ LoadExcept(t)
    \/ LoadRelease(t)
    \/ GetRead(t)
    \/ GetHit(t)
    \/ GetMiss(t)
    \/ NamesRead(t)
    \/ ClearAcquire(t)
    \/ ClearDict(t)
    \/ ClearReset(t)
    \/ ClearRelease(t)

Next == (\E t \in Threads : Step(t, QueryNames)) \/ StoreChange

Spec == Init /\ [][Next]_vars

\* The bounded-load specification: one caller, containers around the cap.
InitCap ==
    /\ InitCommon
    /\ env = IdentityEnv
    /\ catalog \in BigContainers

NextCap == Step(1, CapQueryNames)

SpecCap == InitCap /\ [][NextCap]_vars

\* The facet specification: one caller of the cache and of the handlers,
\* over containers of the two facet documents.
InitFacet ==
    /\ InitCommon
    /\ env = IdentityEnv
    /\ catalog \in FacetContainers

NextFacet == Step(1, FacetQueryNames) \/ FacetStep(1)

SpecFacet == InitFacet /\ [][NextFacet]_vars

\* The reader specification: the threads of Spec over a container of two
\* loadable objects, so that a load in progress has a partly filled cache.
InitRace ==
    /\ InitCommon
    /\ env = IdentityEnv
    /\ catalog \in RaceContainers

NextRace == \E t \in Threads : Step(t, QueryNames)

SpecRace == InitRace /\ [][NextRace]_vars

\* The termination specification: the threads call get_occupation_data()
\* and clear_cache(), over every environment and a container of one
\* object whose listing runs to its end or fails at once; a thread inside
\* a call is scheduled again and again, and the store answers each request.
EnsureContainers ==
    { Container(<<FacetA>>, NoFail(<<FacetA>>)), Container(<<FacetA>>, 0) }

InitFair ==
    /\ InitCommon
    /\ env \in Envs
    /\ catalog \in (IF GetBlobClient("none", env) = "client"
                    THEN EnsureContainers ELSE {EmptyContainer})

\* the steps of thread t inside a call
Proceed(t) ==
    \/ LoadAcquire(t)
    \/ LoadCheck2(t)
    \/ LoadClient(t)
    \/ LoadList(t)
    \/ LoadIter(t)
    \/ LoadMark(t)
    \/ LoadExcept(t)
    \/ LoadRelease(t)
    \/ GetRead(t)
    \/ ClearAcquire(t)
    \/ ClearDict(t)
    \/ ClearReset(t)
    \/ ClearRelease(t)

NextFair ==
    \E t \in Threads : CallGet(t, <<>>) \/ CallClear(t) \/ Proceed(t)

SpecFair == InitFair /\ [][NextFair]_vars /\ \A t \in Threads : WF_vars(Proceed(t))

\* The construction specification: the threads construct
\* OccupationDataCache() when no instance exists yet.
InitNew ==
    /\ InitBefore
    /\ instance = NoInstance
    /\ env = IdentityEnv
    /\ catalog = EmptyContainer

NextNew == \E t \in Threads : NewStep(t)

SpecNew == InitNew /\ [][NextNew]_vars

(* ======================= what the load should give ===================== *)
Min(a, b) == IF a <= b THEN a ELSE b
JsonBlobs(blobs) == SelectSeq(blobs, LAMBDA b : EndsWithJson(b.name))
LoadableBlobs(blobs) == SelectSeq(JsonBlobs(blobs), Loadable)
FirstUpToCap(s) == SubSeq(s, 1, Min(Len(s), MAX_FILES))
NamesOf(blobs) == [i \in 1..Len(blobs) |-> blobs[i].name]
Names(fs) == [i \in 1..Len(fs) |-> fs[i].name]
Successes(fs) == Len(SelectSeq(fs, LAMBDA f : f.ok))

\* the dict holding the first MAX_FILES loadable suffix-matching objects
\* among the first n of a listing, in listing order
ExpectedCache(blobs, n) ==
    LET kept == FirstUpToCap(LoadableBlobs(SubSeq(blobs, 1, n))) IN
    [i \in 1..Len(kept) |->
        [key |-> StripSuffix(kept[i].name), val |-> JsonLoads(kept[i].content)]]

\* the flag is set and no clear_cache is between its two statements
Settled == is_loaded /\ \A t \in Threads : pc[t] # "c_reset"

\* thread t has run a load sequence to the end of the with block
\* without an error of the listing or of the client
LoadedThrough(t) ==
    /\ pc[t] = "l_release"
    /\ outcome[t] \notin {"skipped", "aborted", "unconfigured", "listfail"}

(* ================================ claims =============================== *)

\* C1: when several threads call _load_all_occupations on a never-loaded
\* cache and clear_cache is never called, then once every thread's call has
\* returned, exactly one load sequence has run, no call has raised, the
\* flag is set and every caller that lists the names sees the cache's names.
C1_LoadOnce ==
    (nClearCalls = 0 /\ \A t \in Threads : pc[t] \in {"done", "raised", "keyerror"})
    => /\ nLoads = 1
       /\ is_loaded
       /\ \A t \in Threads :
            /\ pc[t] = "done"
            /\ op[t] = "names" => result[t].names = DictKeys(occupation_data)

\* C2: in every reachable state the cache holds at most MAX_FILES (20)
\* collections.
C2_AtMostCap == get_occupation_count <= MAX_FILES

\* the cache is full while the listing still has objects to give
C2_Witness ==
    /\ get_occupation_count = MAX_FILES
    /\ nClears >= 1
    /\ \E t \in Threads : LoadedThrough(t) /\ Len(LoadableBlobs(listing[t].blobs)) > MAX_FILES

\* C3: when the listing holds more than 20 suffix-matching objects and all
\* of them fetch and parse, the downloads of a load are a prefix of these
\* objects, at most 20 long, and a load that runs through caches exactly
\* the first 20 in listing order and has downloaded exactly these.
C3_FirstTwenty ==
    \A t \in Threads :
        LET js == JsonBlobs(listing[t].blobs) IN
        (pc[t] \in {"l_iter", "l_mark", "l_release"} /\ Len(js) > MAX_FILES
            /\ LoadableBlobs(listing[t].blobs) = js)
        => /\ Len(fetched) <= MAX_FILES
           /\ Names(fetched) = SubSeq(NamesOf(js), 1, Len(fetched))
           /\ LoadedThrough(t) =>
                /\ is_loaded
                /\ Names(fetched) = NamesOf(FirstUpToCap(js))
                /\ DictKeys(occupation_data) =
                     [i \in 1..MAX_FILES |-> StripSuffix(js[i].name)]

C3_Witness ==
    \E t \in Threads :
        /\ LoadedThrough(t)
        /\ Len(JsonBlobs(listing[t].blobs)) > MAX_FILES
        /\ LoadableBlobs(listing[t].blobs) = JsonBlobs(listing[t].blobs)
        /\ Len(listing[t].blobs) > Len(JsonBlobs(listing[t].blobs))
        /\ get_occupation_count = MAX_FILES

\* C4, as claimed: a load sequence downloads at most 20 suffix-matching
\* objects, failed downloads counted.
C4_AtMostCapAttempts == Len(fetched) <= MAX_FILES

\* C4, amended: a load sequence stores at most 20 objects; a download that
\* fails does not count, every download is made while fewer than 20 objects
\* have been stored, file_count is the number stored, and the loop is left
\* only with 20 stored or with the listing exhausted or failed.
C4_AtMostCapLoaded ==
    /\ Successes(fetched) <= MAX_FILES
    /\ \A i \in 1..Len(fetched) : Successes(SubSeq(fetched, 1, i - 1)) < MAX_FILES
    /\ \A t \in Threads :
         /\ pc[t] = "l_iter" => file_count[t] = Successes(fetched)
         /\ (pc[t] = "l_mark" /\ outcome[t] = "complete")
            => \/ Successes(fetched) = MAX_FILES
               \/ idx[t] = Len(listing[t].blobs)

\* more than 20 objects were downloaded in one load sequence
C4_Witness ==
    /\ Len(fetched) > MAX_FILES
    /\ Successes(fetched) = MAX_FILES
    /\ \E t \in Threads : LoadedThrough(t)

\* C5: a load whose listing does not fail runs through whatever downloads
\* or parses fail: it ends with the flag set and with the cache holding
\* exactly the loadable suffix-matching objects of the listing, up to the
\* cap, so that no failing object is in it.
C5_PartialFailure ==
    \A t \in Threads :
        LoadedThrough(t)
        => /\ is_loaded
           /\ occupation_data = ExpectedCache(listing[t].blobs, Len(listing[t].blobs))
           /\ \A i \in 1..Len(listing[t].blobs) :
                LET b == listing[t].blobs[i] IN
                (EndsWithJson(b.name) /\ ~Loadable(b))
                => ~DictHas(occupation_data, StripSuffix(b.name))

\* ExampleSize (5) objects, one of them unparsable: one fewer is cached
C5_Witness ==
    \E t \in Threads :
        /\ LoadedThrough(t)
        /\ Len(listing[t].blobs) = ExampleSize
        /\ Len(JsonBlobs(listing[t].blobs)) = ExampleSize
        /\ \E i \in 1..ExampleSize : listing[t].blobs[i].content = "malformed"
        /\ get_occupation_count = ExampleSize - 1
        /\ IsLoaded

\* thread t has left _load_all_occupations: by return, on to the caller's
\* read, or by the exception of _get_blob_client
LeftEnsureLoaded(t) == pc[t] \in {"g_read", "n_read", "raised"}

\* C6: with no clear_cache called, every call of _load_all_occupations
\* leaves the flag set when it exits and does not raise, whichever step of
\* the load fails.
C6_AlwaysLoaded ==
    \A t \in Threads :
        (nClearCalls = 0 /\ LeftEnsureLoaded(t)) => (is_loaded /\ pc[t] # "raised")

\* the store is unconfigured, or the listing has failed, in the load
\* sequence thread t is about to leave
Degraded(t) == pc[t] = "l_release" /\ outcome[t] \in {"unconfigured", "listfail"}

NamedQueries == (QueryNames \cup CapQueryNames) \ {<<>>}

\* C7, as claimed: a load that finds the store unconfigured, or whose
\* listing fails at its first or at any later object, ends with the flag
\* set and with an empty cache, and get_occupation_data(name) answers not
\* found for every name.
C7_DegradesToEmpty ==
    \A t \in Threads :
        Degraded(t)
        => /\ is_loaded
           /\ get_occupation_count = 0
           /\ \A n \in NamedQueries : Lookup(occupation_data, n).kind = "notfound"

\* C7, amended: such a load ends with the flag set and with the cache
\* holding exactly what was stored before the failure; it is empty, and
\* every name is not found, when the store is unconfigured or the listing
\* fails before any object was stored.
C7_DegradesToPrefix ==
    \A t \in Threads :
        Degraded(t)
        => /\ is_loaded
           /\ occupation_data = ExpectedCache(listing[t].blobs, idx[t])
           /\ (outcome[t] = "unconfigured" \/ file_count[t] = 0)
              => /\ get_occupation_count = 0
                 /\ \A n \in NamedQueries : Lookup(occupation_data, n).kind = "notfound"

\* the listing failed after an object had been stored
C7_Witness ==
    \E t \in Threads :
        /\ Degraded(t)
        /\ outcome[t] = "listfail"
        /\ idx[t] >= 1
        /\ get_occupation_count >= 1
        /\ is_loaded

\* C8: while the flag is set no load sequence starts, and the store is
\* neither listed nor downloaded from: each of these steps is taken with
\* the flag unset, which only clear_cache brings about.
C8_NoLoadWhileLoaded ==
    [][ ( \/ nLoads' # nLoads
          \/ \E t \in Threads : pc[t] = "l_list" /\ pc'[t] = "l_iter"
          \/ Len(fetched') > Len(fetched) )
        => ~is_loaded ]_vars

\* a thread that lost the race finds the flag set under the lock and
\* leaves without loading
C8_Witness ==
    \E t \in Threads :
        /\ pc[t] = "l_release"
        /\ outcome[t] = "skipped"
        /\ is_loaded
        /\ nLoads = 1

\* C9: when clear_cache releases the lock the cache is empty and the flag
\* unset; and whenever the flag is set again, exactly one load sequence
\* started since the last reset has run to its end, and the cache is what
\* that load built from the listing it took, with nothing of the earlier
\* contents.
C9_InvalidateThenReload ==
    /\ [](\A t \in Threads :
            pc[t] = "c_release" => (get_occupation_count = 0 /\ ~IsLoaded))
    /\ [][ \A t \in Threads :
             (pc[t] = "c_release" /\ pc'[t] = "done")
             => (occupation_data' = <<>> /\ ~is_loaded') ]_vars
    /\ [](Settled
          => /\ loadsInGen = abortedInGen + 1
             /\ occupation_data = ExpectedCache(lastLoad.listing, lastLoad.taken))

\* a cache loaded, cleared, and loaded again from a changed container
C9_Witness ==
    /\ Settled
    /\ nClears = 1
    /\ nLoads = 2
    /\ loadsInGen = 1
    /\ nStoreChanges = 1
    /\ get_occupation_count >= 1
    /\ \A t \in Threads : Free(t)

InLoad(t) ==
    \/ pc[t] \in {"l_client", "l_list", "l_iter", "l_mark", "l_except"}
    \/ pc[t] = "l_release" /\ outcome[t] # "skipped"
InClear(t) == pc[t] \in {"c_clear", "c_reset", "c_release"}

\* C10: no two threads are at once inside a load sequence or the clear of
\* clear_cache, in any combination, and a thread inside one holds the lock.
C10_MutualExclusion ==
    \A t, u \in Threads :
        /\ (InLoad(t) \/ InClear(t)) => lock = t
        /\ (t # u /\ (InLoad(t) \/ InClear(t))) => ~(InLoad(u) \/ InClear(u))

\* a thread is loading while another waits to clear
C10_Witness ==
    \E t, u \in Threads :
        /\ t # u
        /\ pc[t] = "l_iter"
        /\ pc[u] = "c_acquire"

\* C11: when get_occupation_data(name) answers not found, for a non-empty
\* name that is not a key of the cache, the available names of the answer
\* are what get_all_occupations() returns from the cache at that step: the
\* same names in the same order; and a non-empty name that is not a key is
\* always answered so.
C11_NotFoundListsNames ==
    /\ [][ \A t \in Threads :
             /\ (pc[t] = "g_read" /\ pc'[t] # "g_read" /\ arg[t] # <<>>
                    /\ ~DictHas(occupation_data, arg[t]))
                => pc'[t] = "g_miss"
             /\ (pc[t] = "g_miss" /\ pc'[t] # "g_miss")
                => /\ result'[t].kind = "notfound"
                   /\ result'[t].name = arg[t]
                   /\ result'[t].available = DictKeys(occupation_data)
                   /\ \A i, j \in 1..Len(result'[t].available) :
                        i # j => result'[t].available[i] # result'[t].available[j] ]_vars
    /\ [](\A t \in Threads :
            (pc[t] = "done" /\ op[t] = "names")
            => result[t] = [kind |-> "names", names |-> DictKeys(occupation_data)]
               \/ \E u \in Threads : u # t /\ ~Free(u))

\* a name is not found among MAX_FILES (20) others
C11_Witness ==
    \E t \in Threads :
        /\ pc[t] = "done"
        /\ result[t].kind = "notfound"
        /\ result[t].name # <<>>
        /\ Len(result[t].available) = MAX_FILES
        /\ result[t].available = DictKeys(occupation_data)

\* the objects of a listing, among its first n, whose name is some key
\* followed by ".json"
SuffixedAmong(blobs, n) ==
    { j \in 1..Min(n, Len(blobs)) :
        LET name == blobs[j].name
            k == Len(name) - Len(JSON_SUFFIX)
        IN  k >= 0 /\ name = SubSeq(name, 1, k) \o JSON_SUFFIX }

\* C14: a load passes over every object whose name does not end in ".json":
\* each download is of a name with the suffix, each cached collection is
\* the parsed content of a listed object whose name is the key followed by
\* ".json", and file_count, which the cap of 20 is tested on, is the number
\* of objects stored, however many objects without the suffix came before.
C14_SuffixOnly ==
    LET taken == SuffixedAmong(lastLoad.listing, lastLoad.taken) IN
    /\ \A i \in 1..Len(fetched) :
         \E j \in taken : lastLoad.listing[j].name = fetched[i].name
    /\ \A i \in 1..Len(occupation_data) :
         \E j \in taken :
            /\ lastLoad.listing[j].name = occupation_data[i].key \o JSON_SUFFIX
            /\ occupation_data[i].val = JsonLoads(lastLoad.listing[j].content)
    /\ \A t \in Threads :
         pc[t] = "l_iter"
         => /\ file_count[t] = Len(occupation_data)
            /\ file_count[t] <= Cardinality(SuffixedAmong(listing[t].blobs, idx[t]))

\* an object without the suffix among the first 20 listed: the 21st object
\* is loaded in its place
C14_Witness ==
    \E t \in Threads :
        /\ LoadedThrough(t)
        /\ get_occupation_count = MAX_FILES
        /\ Len(listing[t].blobs) > MAX_FILES
        /\ Cardinality(SuffixedAmong(listing[t].blobs, MAX_FILES)) = MAX_FILES - 1
        /\ DictHas(occupation_data, StripSuffix(listing[t].blobs[MAX_FILES + 1].name))
        /\ Len(fetched) = MAX_FILES

\* the positions of a caller between the return of _load_all_occupations
\* and its own return
ReadPcs == {"g_read", "g_hit", "g_miss", "n_read"}

\* the steps of thread t at these positions
ReadStep(t) == GetRead(t) \/ GetHit(t) \/ GetMiss(t) \/ NamesRead(t)

\* C15: a call of get_occupation_data or get_all_occupations that finds
\* the flag set goes on to its read without taking the lock; from there to
\* its return it never holds nor acquires the lock, and each of its steps
\* can be taken whoever holds the lock.
C15_LockFreeRead ==
    /\ [][ \A t \in Threads :
             /\ (Free(t) /\ ~Free(t)' /\ op'[t] # "clear" /\ is_loaded)
                => (pc'[t] \in ReadPcs /\ outcome'[t] = "fast" /\ lock' = lock)
             /\ (pc[t] \in ReadPcs /\ pc'[t] # pc[t])
                => (pc'[t] \in ReadPcs \cup {"done", "keyerror", "f_filter"} /\ lock' = lock) ]_vars
    /\ [](\A t \in Threads :
            pc[t] \in ReadPcs => (lock # t /\ ENABLED ReadStep(t)))

\* a caller that found the flag set is reading while another thread holds
\* the lock inside clear_cache
C15_Witness ==
    \E t, u \in Threads :
        /\ t # u
        /\ pc[t] \in ReadPcs
        /\ outcome[t] = "fast"
        /\ lock = u
        /\ InClear(u)
        /\ ENABLED ReadStep(t)

(* ====================== what the handlers should give ================== *)
\* the records of the collections of a cache, one collection after the
\* other in the cache's order
RECURSIVE Concatenation(_, _)
Concatenation(d, n) == IF n = 0 THEN <<>> ELSE Concatenation(d, n - 1) \o d[n].val

\* thread t has returned from a handler that got as far as its filter,
\* with the collection it named, if any, in the cache
Answered(t, facet) ==
    /\ pc[t] = "done"
    /\ op[t] = facet
    /\ result[t].kind = "response"
    /\ "error" \notin DOMAIN result[t].body
    /\ arg[t] # <<>> => DictHas(occupation_data, arg[t])

\* the records such a call resolved
Resolved(t) ==
    IF arg[t] = <<>> THEN Concatenation(occupation_data, Len(occupation_data))
    ELSE DictGet(occupation_data, arg[t])

\* the argument the handler of req[t] requires is not given or is empty
LacksRequired(r) ==
    \/ r.facet = "get_job_codes_for_rank" /\ (RANK_CODE \notin r.given \/ r.rank = "")
    \/ /\ r.facet \in {"get_tasks_for_job_code", "get_skills_for_job_code",
                       "get_knowledge_for_job_code"}
       /\ (JOB_CODE \notin r.given \/ r.job_code = "")
    \/ /\ r.facet = "get_tasks_for_duty_area"
       /\ (DUTY_AREA_CODE \notin r.given \/ r.duty_area_code = "")

\* C12: a handler whose call of get_occupation_data(name) is answered not
\* found returns that structure, error text and available names unchanged,
\* and no envelope; so does every handler called with its required argument
\* and a name that is not in the cache.
C12_NotFoundPassesThrough ==
    /\ [][ \A t \in Threads :
             (pc[t] = "f_filter" /\ pc'[t] = "done" /\ result[t].kind = "notfound")
             => result'[t] =
                  Response([error |-> NotFoundText(result[t].name),
                            available_occupations |-> result[t].available]) ]_vars
    /\ [](\A t \in Threads :
            (pc[t] = "done" /\ op[t] \in Facets /\ ~LacksRequired(req[t])
                /\ arg[t] # <<>> /\ ~DictHas(occupation_data, arg[t]))
            => /\ DOMAIN result[t].body = {"error", "available_occupations"}
               /\ result[t].body.error = NotFoundText(arg[t])
               /\ result[t].body.available_occupations = DictKeys(occupation_data))

\* a handler given its argument and a name missing from a cache of two
C12_Witness ==
    \E t \in Threads :
        /\ pc[t] = "done"
        /\ op[t] = "get_job_codes_for_rank"
        /\ req[t].rank = "E1"
        /\ arg[t] = <<"z">>
        /\ get_occupation_count = Len(<<FacetA, FacetB>>)
        /\ result[t].body.available_occupations = <<<<"a">>, <<"b">>>>

\* the text of each handler's error for its required argument
RequiredTextOf(facet) ==
    CASE facet = "get_job_codes_for_rank" -> <<"Rank is required">>
      [] facet = "get_tasks_for_duty_area" -> <<"Duty area code is required">>
      [] OTHER -> <<"Job code is required">>

\* C13: a handler called without its required argument (rank, job code,
\* duty-area code), or with it empty, returns the error "<Field> is
\* required" in the step of the call: the cache is not called, no load
\* starts, and flag, cache contents, client and lock are left as they were.
C13_RequiredArgumentFirst ==
    [][ \A t \in Threads :
          (Free(t) /\ nCalls' = nCalls + 1 /\ req'[t] # NoRequest
              /\ (\A u \in Threads \ {t} : pc'[u] = pc[u] /\ req'[u] = req[u])
              /\ LacksRequired(req'[t]))
          => /\ pc'[t] = "done"
             /\ result'[t] = Response([error |-> RequiredTextOf(req'[t].facet)])
             /\ UNCHANGED <<occupation_data, is_loaded, blob_service_client, lock>>
             /\ UNCHANGED <<nLoads, fetched, lastLoad>> ]_vars

\* the rank is missing, the cache was never loaded and the name given is
\* in no container
C13_Witness ==
    \E t \in Threads :
        /\ pc[t] = "done"
        /\ op[t] = "get_job_codes_for_rank"
        /\ RANK_CODE \notin req[t].given
        /\ req[t].occupation = <<"z">>
        /\ result[t] = Response([error |-> <<"Rank is required">>])
        /\ ~IsLoaded
        /\ nLoads = 0
        /\ nCalls = 1

\* the items and the total of a handler's envelope
ItemsOf(facet, body) ==
    CASE facet = "get_all_ranks" -> body.ranks
      [] facet = "get_job_codes_for_rank" -> body.job_codes
      [] facet \in {"get_tasks_for_job_code", "get_tasks_for_duty_area"} -> body.tasks
      [] facet = "get_skills_for_job_code" -> body.skills
      [] facet = "get_knowledge_for_job_code" -> body.knowledge_items
      [] OTHER -> body.duty_areas
TotalOf(facet, body) ==
    CASE facet = "get_all_ranks" -> body.total_ranks
      [] facet = "get_job_codes_for_rank" -> body.total_job_codes
      [] facet \in {"get_tasks_for_job_code", "get_tasks_for_duty_area"} -> body.total_tasks
      [] facet = "get_skills_for_job_code" -> body.total_skills
      [] facet = "get_knowledge_for_job_code" -> body.total_knowledge_items
      [] OTHER -> body.total_duty_areas

\* invocation r with collection name given
Named(r, name) == [r EXCEPT !.given = @ \cup {OCC_NAME}, !.occupation = name]

\* C16: a handler called without a collection name answers with its
\* envelope over the records of all cached collections, one collection
\* after the other in the cache's order, under the filter "All"; when the
\* cache holds one collection, its items and total are those of the same
\* call naming that collection.
C16_AllIsConcatenation ==
    \A t \in Threads : \A f \in Facets :
        (Answered(t, f) /\ arg[t] = <<>>)
        => /\ result[t].body =
                Envelope(req[t], Concatenation(occupation_data, Len(occupation_data)))
           /\ result[t].body.occupation_filter = ALL_NAME
           /\ Len(occupation_data) = 1
              => LET key == occupation_data[1].key
                     named == HandlerBody(Named(req[t], key), Lookup(occupation_data, key))
                 IN  /\ ItemsOf(f, result[t].body) = ItemsOf(f, named)
                     /\ TotalOf(f, result[t].body) = TotalOf(f, named)
                     /\ named.occupation_filter = key

\* the tasks of duty area D1 over the cache (b, a): those of b, then a's
C16_Witness ==
    \E t \in Threads :
        /\ Answered(t, "get_tasks_for_duty_area")
        /\ arg[t] = <<>>
        /\ req[t].duty_area_code = "D1"
        /\ JOB_CODE \notin req[t].given
        /\ DictKeys(occupation_data) = <<<<"b">>, <<"a">>>>
        /\ [i \in 1..Len(result[t].body.tasks) |-> result[t].body.tasks[i].task_code]
             = <<"T1", "T4", "T5", "T1">>
        /\ result[t].body.tasks[2].job_code = ""

\* the rank a record counts under
RankOf(record) == IF "Rank" \in DOMAIN record THEN record.Rank ELSE "Unknown"

\* C17: get_all_ranks lists the distinct Rank values of the resolved
\* records, "Unknown" for a record without Rank, each once and in ascending
\* order, and total_ranks is the length of the list; for the record set of
\* the specification's example it answers ["E1", "E2"], total 2.
C17_Ranks ==
    \A t \in Threads :
        Answered(t, "get_all_ranks")
        => LET records == Resolved(t)
               ranks == result[t].body.ranks
           IN  /\ { ranks[i] : i \in 1..Len(ranks) }
                    = { RankOf(records[j]) : j \in 1..Len(records) }
               /\ \A i, j \in 1..Len(ranks) : i < j => StrLess(ranks[i], ranks[j])
               /\ result[t].body.total_ranks = Len(ranks)
               /\ records = DocE
                  => (ranks = <<"E1", "E2">> /\ result[t].body.total_ranks = Len(DocE))

\* all collections, one of them with a record without Rank
C17_Witness ==
    \E t \in Threads :
        /\ Answered(t, "get_all_ranks")
        /\ arg[t] = <<>>
        /\ DictKeys(occupation_data) = <<<<"b">>, <<"a">>>>
        /\ result[t].body.ranks = <<"E1", "E2", "Unknown">>
        /\ result[t].body.occupation_filter = ALL_NAME

\* The answer of get_job_codes_for_rank of thread t is one entry for each
\* distinct JobCode, not among those excluded, of the resolved records of
\* the given rank, in the order in which the codes first occur, each with
\* OccupationRequirement and Occupation of the first such record of its code.
JobCodesListed(t, excluded) ==
    LET rank == req[t].rank
        entries == result[t].body.job_codes
        matching == SelectSeq(Resolved(t),
                      LAMBDA r : /\ "Rank" \in DOMAIN r
                                 /\ r.Rank = rank
                                 /\ "JobCode" \in DOMAIN r
                                 /\ r.JobCode \notin excluded)
        First(code) == CHOOSE i \in 1..Len(matching) :
                          /\ matching[i].JobCode = code
                          /\ \A j \in 1..(i - 1) : matching[j].JobCode # code
    IN  /\ { entries[i].job_code : i \in 1..Len(entries) }
             = { matching[i].JobCode : i \in 1..Len(matching) }
        /\ \A i, j \in 1..Len(entries) :
             i < j => First(entries[i].job_code) < First(entries[j].job_code)
        /\ \A i \in 1..Len(entries) :
             LET first == matching[First(entries[i].job_code)] IN
             /\ entries[i].occupation_requirement
                  = (IF "OccupationRequirement" \in DOMAIN first
                     THEN first.OccupationRequirement ELSE "Unknown")
             /\ entries[i].occupation
                  = (IF "Occupation" \in DOMAIN first THEN first.Occupation ELSE "Unknown")
        /\ result[t].body.total_job_codes = Len(entries)
        /\ result[t].body.rank_filter = rank
        /\ matching = <<>> => (entries = <<>> /\ result[t].body.total_job_codes = 0)

\* C18, as claimed: one entry per distinct JobCode among the resolved
\* records of the given rank, whatever the code.
C18_JobCodesAsClaimed ==
    \A t \in Threads : Answered(t, "get_job_codes_for_rank") => JobCodesListed(t, {})

\* C18, amended: one entry per distinct non-empty JobCode among the
\* resolved records of the given rank, in order of first occurrence, with
\* OccupationRequirement and Occupation of the first record of that code
\* ("Unknown" when it has none) and total_job_codes the number of entries;
\* a record of the rank whose JobCode is empty gets no entry; a rank no
\* record has gives an empty list and total 0, no error.
C18_JobCodesNonEmpty ==
    \A t \in Threads : Answered(t, "get_job_codes_for_rank") => JobCodesListed(t, {""})

\* rank E1 over the cache (b, a): A1 from b's Clerk record, then B2; the
\* record with the empty code and a's record of A1 add nothing
C18_Witness ==
    \E t \in Threads :
        /\ Answered(t, "get_job_codes_for_rank")
        /\ req[t].rank = "E1"
        /\ arg[t] = <<>>
        /\ DictKeys(occupation_data) = <<<<"b">>, <<"a">>>>
        /\ result[t].body.job_codes =
             << [job_code |-> "A1", occupation_requirement |-> "Unknown",
                 occupation |-> "Clerk"],
                [job_code |-> "B2", occupation_requirement |-> "Unknown",
                 occupation |-> "Cook"] >>
        /\ \E i \in 1..Len(DocM) :
             RankOf(DocM[i]) = "E1" /\ Get(DocM[i], "JobCode") = ""

\* the category and the labels of the three handlers by job code
CategoryOf(facet) ==
    CASE facet = "get_tasks_for_job_code" -> "Task"
      [] facet = "get_skills_for_job_code" -> "Skill"
      [] OTHER -> "Knowledge"
CodeOf(facet, entry) ==
    CASE facet = "get_tasks_for_job_code" -> entry.task_code
      [] facet = "get_skills_for_job_code" -> entry.skill_code
      [] OTHER -> entry.knowledge_code
DescriptionOf(facet, entry) ==
    CASE facet = "get_tasks_for_job_code" -> entry.task_description
      [] facet = "get_skills_for_job_code" -> entry.skill_description
      [] OTHER -> entry.knowledge_description

\* the value of a field of a record, None without the field
FieldOf(record, field) == IF field \in DOMAIN record THEN record[field] ELSE "None"

\* C19: get_tasks_for_job_code, get_skills_for_job_code and
\* get_knowledge_for_job_code answer with one entry for each resolved
\* record of the given JobCode and of their category (Task, Skill,
\* Knowledge), in the records' order and without leaving out repetitions;
\* is_required is the record's IsRequired, false without the field; the
\* total is the number of entries; no record of another category, or of
\* another job code, has an entry.
C19_ForJobCode ==
    \A t \in Threads :
      \A f \in {"get_tasks_for_job_code", "get_skills_for_job_code",
                "get_knowledge_for_job_code"} :
        Answered(t, f)
        => LET items == ItemsOf(f, result[t].body)
               matching == SelectSeq(Resolved(t),
                             LAMBDA r : /\ "JobCode" \in DOMAIN r
                                        /\ r.JobCode = req[t].job_code
                                        /\ "Category" \in DOMAIN r
                                        /\ r.Category = CategoryOf(f))
           IN  /\ Len(items) = Len(matching)
               /\ TotalOf(f, result[t].body) = Len(items)
               /\ result[t].body.job_code_filter = req[t].job_code
               /\ \A i \in 1..Len(items) :
                    /\ CodeOf(f, items[i]) = FieldOf(matching[i], "TaskCode")
                    /\ DescriptionOf(f, items[i]) = FieldOf(matching[i], "TaskDescription")
                    /\ items[i].duty_area_code = FieldOf(matching[i], "DutyAreaGroupCode")
                    /\ items[i].duty_area_name = FieldOf(matching[i], "DutyAreaGroupName")
                    /\ items[i].is_required
                         = ("IsRequired" \in DOMAIN matching[i] /\ matching[i].IsRequired)

\* the skills of job code A1 over the cache (a, b): the one Skill record
\* of A1, which has no IsRequired, among Task and Knowledge records of A1
C19_Witness ==
    \E t \in Threads :
        /\ Answered(t, "get_skills_for_job_code")
        /\ req[t].job_code = "A1"
        /\ arg[t] = <<>>
        /\ DictKeys(occupation_data) = <<<<"a">>, <<"b">>>>
        /\ result[t].body.total_skills = 1
        /\ result[t].body.skills =
             << [skill_code |-> "S1", skill_description |-> "sd",
                 duty_area_code |-> "None", duty_area_name |-> "None",
                 is_required |-> FALSE] >>

\* C20: get_tasks_for_duty_area answers with one entry for each resolved
\* record of the given DutyAreaGroupCode and of Category Task, in the
\* records' order; with a non-empty job code given, only for the records of
\* that JobCode, the code being echoed; with none given, or an empty one,
\* for all of them, and the job-code filter is echoed as "All".
C20_ForDutyArea ==
    \A t \in Threads :
        Answered(t, "get_tasks_for_duty_area")
        => LET tasks == result[t].body.tasks
               supplied == JOB_CODE \in req[t].given /\ req[t].job_code # ""
               matching == SelectSeq(Resolved(t),
                             LAMBDA r : /\ "DutyAreaGroupCode" \in DOMAIN r
                                        /\ r.DutyAreaGroupCode = req[t].duty_area_code
                                        /\ "Category" \in DOMAIN r
                                        /\ r.Category = "Task"
                                        /\ supplied =>
                                             /\ "JobCode" \in DOMAIN r
                                             /\ r.JobCode = req[t].job_code)
           IN  /\ Len(tasks) = Len(matching)
               /\ result[t].body.total_tasks = Len(tasks)
               /\ result[t].body.duty_area_code_filter = req[t].duty_area_code
               /\ result[t].body.job_code_filter
                    = (IF supplied THEN req[t].job_code ELSE "All")
               /\ \A i \in 1..Len(tasks) :
                    /\ tasks[i].task_code = FieldOf(matching[i], "TaskCode")
                    /\ tasks[i].task_description = FieldOf(matching[i], "TaskDescription")
                    /\ tasks[i].job_code = FieldOf(matching[i], "JobCode")
                    /\ tasks[i].rank = FieldOf(matching[i], "Rank")
                    /\ tasks[i].is_required
                         = ("IsRequired" \in DOMAIN matching[i] /\ matching[i].IsRequired)

\* duty area D1 with the job code given empty, over the cache (a, b): the
\* tasks of all job codes, the empty one among them
C20_Witness ==
    \E t \in Threads :
        /\ Answered(t, "get_tasks_for_duty_area")
        /\ req[t].duty_area_code = "D1"
        /\ JOB_CODE \in req[t].given
        /\ req[t].job_code = ""
        /\ arg[t] = <<>>
        /\ DictKeys(occupation_data) = <<<<"a">>, <<"b">>>>
        /\ result[t].body.job_code_filter = "All"
        /\ [i \in 1..Len(result[t].body.tasks) |-> result[t].body.tasks[i].job_code]
             = <<"A1", "A1", "", "B2">>

\* The answer of get_all_duty_areas of thread t is one entry for each
\* distinct DutyAreaGroupCode, not among those excluded, of the resolved
\* records, in ascending order of code, each with the DutyAreaGroupName of
\* the first record of its code.
DutyAreasListed(t, excluded) ==
    LET entries == result[t].body.duty_areas
        coded == SelectSeq(Resolved(t),
                    LAMBDA r : /\ "DutyAreaGroupCode" \in DOMAIN r
                               /\ r.DutyAreaGroupCode \notin excluded)
        First(code) == CHOOSE i \in 1..Len(coded) :
                          /\ coded[i].DutyAreaGroupCode = code
                          /\ \A j \in 1..(i - 1) : coded[j].DutyAreaGroupCode # code
    IN  /\ { entries[i].code : i \in 1..Len(entries) }
             = { coded[i].DutyAreaGroupCode : i \in 1..Len(coded) }
        /\ \A i, j \in 1..Len(entries) :
             i < j => StrLess(entries[i].code, entries[j].code)
        /\ \A i \in 1..Len(entries) :
             entries[i].name = Get(coded[First(entries[i].code)], "DutyAreaGroupName")
        /\ result[t].body.total_duty_areas = Len(entries)

\* C21, as claimed: one entry per distinct DutyAreaGroupCode of the
\* resolved records, whatever the code.
C21_DutyAreasAsClaimed ==
    \A t \in Threads : Answered(t, "get_all_duty_areas") => DutyAreasListed(t, {})

\* C21, amended: get_all_duty_areas returns exactly one entry per distinct
\* non-empty DutyAreaGroupCode of the resolved records, carrying the
\* DutyAreaGroupName of the first record with that code, sorted ascending
\* by code, with total_duty_areas equal to the number of entries; a record
\* whose DutyAreaGroupCode is empty gets no entry.
C21_DutyAreasNonEmpty ==
    \A t \in Threads : Answered(t, "get_all_duty_areas") => DutyAreasListed(t, {""})

\* all collections of the cache (b, a): D1 named by b's first record of
\* D1, before D2 though D2 comes first in b; the record with the empty
\* code adds nothing
C21_Witness ==
    \E t \in Threads :
        /\ Answered(t, "get_all_duty_areas")
        /\ arg[t] = <<>>
        /\ DictKeys(occupation_data) = <<<<"b">>, <<"a">>>>
        /\ result[t].body.duty_areas =
             << [code |-> "D1", name |-> "AreaOne"],
                [code |-> "D2", name |-> "Area2"] >>
        /\ result[t].body.total_duty_areas = 2
        /\ \E i \in 1..Len(DocM) : Get(DocM[i], "DutyAreaGroupCode") = ""

(* ==================== readers beside clear and reload ================== *)
\* thread t, in get_occupation_data, takes the step that reads the cache
\* for its answer: all collections, or the names available
AnswersFromCache(t) ==
    /\ pc[t] \in {"g_read", "g_miss"}
    /\ result[t].kind = "none"
    /\ result'[t].kind \in {"all", "notfound"}

\* C22: whatever the interleaving of get_occupation_data with clear_cache
\* and the load sequence that follows it, the collections a call returns,
\* or the names it reports as available, are the complete cache of one
\* load sequence that has finished: the call reads the cache while the
\* flag is set, and neither the emptied cache of a clear_cache in progress
\* nor the partly filled cache of a load in progress.
C22_ReadsFinishedLoad ==
    [][ \A t \in Threads :
          AnswersFromCache(t)
          => /\ Settled
             /\ occupation_data = ExpectedCache(lastLoad.listing, lastLoad.taken) ]_vars

\* C23: whatever the interleaving with clear_cache and the load sequence
\* that follows it, a not-found answer of get_occupation_data(name) does
\* not have the name asked for among its available names.
C23_NotFoundOmitsName ==
    \A t \in Threads :
        result[t].kind = "notfound"
        => \A i \in 1..Len(result[t].available) : result[t].available[i] # result[t].name

(* ============================ construction ============================= *)
\* thread t has received an object from OccupationDataCache()
Received(t) == result[t].kind = "instance"

CompletedClears == nClears - Cardinality({ t \in Threads : pc[t] = "c_release" })

\* C25: in every reachable state, as long as no load sequence was left by
\* an exception, the load sequences started so far are at most one more
\* than the clear_cache calls that have returned so far, whatever the
\* threads and the interleaving of their calls.
C25_LoadsBoundedByClears ==
    nAborted = 0 => nLoads <= 1 + CompletedClears

\* a second load is running, after the one clear_cache call returned,
\* while the thread that ran the first has yet to read the cache
C25_Witness ==
    /\ nAborted = 0
    /\ nLoads = 2
    /\ CompletedClears = 1
    /\ \E t, u \in Threads : pc[t] = "l_iter" /\ pc[u] = "g_read"

(* ============================= termination ============================= *)
\* inside _load_all_occupations past the first test of the flag, and
\* inside clear_cache
EnsurePcs ==
    {"l_acquire", "l_check2", "l_client", "l_list", "l_iter", "l_mark", "l_except",
     "l_release"}
ClearPcs == {"c_acquire", "c_clear", "c_reset", "c_release"}
\* inside one of the two with blocks
LockedPcs == (EnsurePcs \cup ClearPcs) \ {"l_acquire", "c_acquire"}

\* C26: the lock is held only by a thread inside the with block of the
\* load sequence or of clear_cache, whichever way the block is left
\* (return, the early return of the unconfigured store, a failed listing,
\* the exception of _get_blob_client); and when the threads are scheduled
\* fairly and the store answers, every call of _load_all_occupations and
\* of clear_cache returns or raises: no thread waits for the lock for ever.
C26_LockReleased ==
    /\ [](\A t \in Threads : lock = t <=> pc[t] \in LockedPcs)
    /\ \A t \in Threads :
         /\ (pc[t] \in EnsurePcs) ~> (pc[t] \notin EnsurePcs)
         /\ (pc[t] \in ClearPcs) ~> (pc[t] = "done")

\* a load is about to be left by the exception while the other thread
\* waits for the lock
C26_Witness ==
    \E t, u \in Threads :
        /\ pc[t] = "l_release"
        /\ outcome[t] = "aborted"
        /\ lock = t
        /\ pc[u] \in {"l_acquire", "c_acquire"}

====
